---- MODULE Spec2Model ----
(***************************************************************************)
(* CTracker (src/CTracker.c): the row-clocked live scheduler (play_song,   *)
(* play_row and the voice threads) and the offline renderer / WAV writer   *)
(* (save_song_to_wav), as one state machine driven from main's menu loop.  *)
(*                                                                         *)
(* The master buffer of an export holds tens of thousands of frames per    *)
(* row.  Every loop of the renderer that touches it is pointwise in the    *)
(* frame index, so the model keeps the buffer at a set of observed frames  *)
(* only: the first NumProbes frames of every row slot and the last frame   *)
(* of the buffer.  All sizes and offsets are the real ones.                *)
(***************************************************************************)
EXTENDS Integers, Sequences, FiniteSets, TLC

(* ---------------- program constants ---------------- *)
SAMPLE_RATE == 44100
MAX_ROWS == 16
MAX_CHANNELS == 8
WavHeaderSize == 44

(* ---------------- bounds of the model ---------------- *)
\* songs have 0..MaxRows rows; loop points range over 0..MaxRows-1
MaxRows == 4
\* a live session is followed for at most MaxSteps started rows
MaxSteps == 7
\* frames observed at the start of every row slot of the master buffer
NumProbes == 2
\* a voice thread outlives at most MaxOverlap later row starts
MaxOverlap == 1
\* pitch_shift_sample is called on every buffer of at most MaxLen samples
MaxLen == 3
\* an export is followed through at most MaxNoMem refused allocations
MaxNoMem == 1

Channels == 0 .. (MAX_CHANNELS - 1)
RowIdx == 0 .. (MaxRows - 1)

(* ---------------- integer helpers (C semantics) ---------------- *)
\* C integer division and double -> integer conversion truncate toward zero
TruncDiv(a, b) == IF a >= 0 THEN a \div b ELSE -((-a) \div b)

Min(a, b) == IF a < b THEN a ELSE b

\* the sum as it is, without saturation
NoClamp16(x) == x
\* if (mixed > 32767) mixed = 32767; if (mixed < -32768) mixed = -32768;
Clamp16(x) == IF x > 32767 THEN 32767 ELSE IF x < -32768 THEN -32768 ELSE x

(* ---------------- get_note_duration_ms ---------------- *)
\* the duration of a beat instead of a row
NoteDurationPerBeat(bpm) == IF bpm = 0 THEN 500 ELSE TruncDiv(60000, bpm)
\* if (song->bpm == 0) return 500; return (60000 / song->bpm) / 4;
NoteDurationMs(bpm) == IF bpm = 0 THEN 500 ELSE TruncDiv(TruncDiv(60000, bpm), 4)

get_note_duration_ms(s) == NoteDurationMs(s.bpm)

(* ---------------- pitch ratios ---------------- *)
\* A ratio is an exact fraction <<num, den>>.  The songs of the model keep
\* note - original_note a multiple of 12, where pow(2.0, semitones / 12.0)
\* is an exact power of two and every double operation below is exact.
RECURSIVE Pow2(_)
Pow2(k) == IF k = 0 THEN 1 ELSE 2 * Pow2(k - 1)

calculate_pitch_ratio(original_note, target_note) ==
    IF original_note <= 0 \/ target_note <= 0 THEN <<1, 1>>
    ELSE LET semitones == target_note - original_note
             k == TruncDiv(semitones, 12)
         IN  IF k >= 0 THEN <<Pow2(k), 1>> ELSE <<1, Pow2(-k)>>

\* the test as pitch_ratio == 1.0
NearOneExact(r) == r[1] = r[2]
\* fabs(pitch_ratio - 1.0) < 0.001
NearOne(r) == LET d == IF r[1] >= r[2] THEN r[1] - r[2] ELSE r[2] - r[1]
              IN  1000 * d < r[2]

\* fabs(pitch_ratio - 1.0) > 0.001
FarFromOne(r) == LET d == IF r[1] >= r[2] THEN r[1] - r[2] ELSE r[2] - r[1]
                 IN  1000 * d > r[2]

\* the ratio left as it is
NoClampRatio(r) == r
\* if (pitch_ratio > 2.0) pitch_ratio = 2.0; if (pitch_ratio < 0.5) pitch_ratio = 0.5;
ClampRatio(r) == IF r[1] > 2 * r[2] THEN <<2, 1>>
                 ELSE IF 2 * r[1] < r[2] THEN <<1, 2>> ELSE r

\* the length rounded up instead of truncated
NewLenCeil(original_len, r) == (original_len * r[2] + r[1] - 1) \div r[1]
\* *new_len = (Uint32)(original_len / pitch_ratio), the ratio already clamped
NewLen(original_len, r) == (original_len * r[2]) \div r[1]

\* Uint32 idx1 = (Uint32)src_pos, for src_pos = i * pitch_ratio
SrcIdx1(i, r) == (i * r[1]) \div r[2]

\* the second index without the test against original_len
SrcIdx2NoClamp(idx1, original_len) == idx1 + 1
\* Uint32 idx2 = idx1 + 1; if (idx2 >= original_len) idx2 = original_len - 1;
SrcIdx2(idx1, original_len) ==
    IF idx1 + 1 >= original_len THEN original_len - 1 ELSE idx1 + 1

\* original[idx].  A read outside the buffer has no defined value: the
\* model gives it 0, and records every index read (SourceReads).
ReadSample(original, idx) ==
    IF idx + 1 \in DOMAIN original THEN original[idx + 1] ELSE 0

\* pitch_shift_sample: the returned buffer (a sequence of Sint16)
pitch_shift_sample(original, pitch_ratio) ==
    IF NearOne(pitch_ratio) THEN original
    ELSE LET r == ClampRatio(pitch_ratio)
             original_len == Len(original)
             new_len == NewLen(original_len, r)
         IN  [n \in 1 .. new_len |->
                LET i == n - 1
                    idx1 == SrcIdx1(i, r)
                    fnum == (i * r[1]) % r[2]
                    idx2 == SrcIdx2(idx1, original_len)
                IN  TruncDiv(ReadSample(original, idx1) * (r[2] - fnum)
                               + ReadSample(original, idx2) * fnum, r[2])]

\* the indices of original that pitch_shift_sample reads: all of them in
\* the memcpy of the fast path, idx1 and idx2 of every output sample else
SourceReads(original_len, pitch_ratio) ==
    IF NearOne(pitch_ratio) THEN 0 .. (original_len - 1)
    ELSE LET r == ClampRatio(pitch_ratio)
         IN  UNION {{SrcIdx1(i, r), SrcIdx2(SrcIdx1(i, r), original_len)} :
                        i \in 0 .. (NewLen(original_len, r) - 1)}

(* ---------------- sample assets (Mix_LoadWAV) ---------------- *)
\* The decoded buffer of each asset file the songs of the model refer to;
\* <<>> with Loadable FALSE is a file Mix_LoadWAV cannot open.
Loadable(name) == name \in {"loud.wav", "soft.wav"}

AssetData(name) ==
    CASE name = "loud.wav" -> <<32767, -32768, 32767, 30000>>
      [] name = "soft.wav" -> <<10, -10, 5>>
      [] OTHER -> <<>>

(* ---------------- tone synthesis ---------------- *)
\* (Sint16)(32767 * 0.3 * sin(2.0 * M_PI * freq * i / SAMPLE_RATE)) with
\* freq = 440.0 * pow(2, (note - 69) / 12.0), tabulated for the notes of the
\* model and the first frames of a row.
SineTable(note) ==
    CASE note = 57 -> <<0, 308, 615, 923, 1229, 1534, 1837, 2139>>
      [] note = 60 -> <<0, 366, 732, 1096, 1460, 1821, 2180, 2535>>
      [] note = 69 -> <<0, 615, 1229, 1837, 2439, 3031, 3610, 4176>>
      [] note = 72 -> <<0, 732, 1460, 2180, 2888, 3579, 4251, 4900>>
      [] OTHER -> <<0, 0, 0, 0, 0, 0, 0, 0>>

ToneSample(note, i) == IF i < 8 THEN SineTable(note)[i + 1] ELSE 0

(* ---------------- the Song ---------------- *)
RestCell(bpm) ==
    [note |-> 0, original_note |-> 60, duration_ms |-> NoteDurationMs(bpm),
     sample |-> "", pitch_ratio |-> <<1, 1>>]

\* a Cell as edit_cell / load_song leave it
MkCell(note, original_note, sample, bpm) ==
    [note |-> note, original_note |-> original_note,
     duration_ms |-> NoteDurationMs(bpm), sample |-> sample,
     pitch_ratio |-> IF note > 0 /\ original_note > 0
                     THEN calculate_pitch_ratio(original_note, note)
                     ELSE <<1, 1>>]

\* what the model puts into a cell: rest, rest with a sample attached,
\* tone, sample at its own pitch, sample an octave up, sample two octaves
\* down, sample whose file is missing
CellOf(kind, bpm) ==
    CASE kind = "rest"      -> RestCell(bpm)
      [] kind = "mute"      -> MkCell(0, 60, "loud.wav", bpm)
      [] kind = "tone"      -> MkCell(69, 60, "", bpm)
      [] kind = "smp"       -> MkCell(60, 60, "loud.wav", bpm)
      [] kind = "smp_up"    -> MkCell(72, 60, "loud.wav", bpm)
      [] kind = "smp_down2" -> MkCell(48, 72, "soft.wav", bpm)
      [] OTHER              -> MkCell(60, 60, "gone.wav", bpm)

\* the cell layouts of the model: one cell on channel 0, row 0, and one cell
\* on channel b.ch, row b.row; every other cell is a rest
LayoutsA == {"rest", "mute", "tone", "smp", "smp_up"}
LayoutsB == {"tone", "smp", "smp_down2", "smp_gone"}
Layouts ==
    {[a |-> ka, b |-> [ch |-> 1, row |-> 0, kind |-> "rest"]] : ka \in LayoutsA}
    \cup {[a |-> ka, b |-> [ch |-> c, row |-> r, kind |-> kb]] :
            ka \in LayoutsA, c \in {1, 4}, r \in {0, MaxRows - 1} \cap RowIdx,
            kb \in LayoutsB}

FewLayouts ==
    {[a |-> "tone", b |-> [ch |-> 4, row |-> MaxRows - 1, kind |-> "smp"]],
     [a |-> "mute", b |-> [ch |-> 1, row |-> 0, kind |-> "rest"]]}

\* the shapes of the model: row count and loop window, as main, set_loop
\* and load_song can leave them (load_song validates none of them)
Shapes ==
    {[num_rows |-> n, loop_enabled |-> 0, loop_start |-> 0, loop_end |-> MAX_ROWS - 1] :
        n \in 0 .. MaxRows}
    \cup {[num_rows |-> n, loop_enabled |-> 1, loop_start |-> ls, loop_end |-> le] :
            n \in 0 .. MaxRows, ls \in RowIdx, le \in RowIdx}

FewShapes ==
    {[num_rows |-> MaxRows, loop_enabled |-> 0, loop_start |-> 0, loop_end |-> MAX_ROWS - 1],
     [num_rows |-> MaxRows, loop_enabled |-> 1, loop_start |-> 0, loop_end |-> 1]}

\* bpm values: 0 (the guarded case), the default 120, the limits of change_bpm
BpmSet == {0, 20, 120, 300}

\* song->channels is kept sparsely: the cells that differ from the rest cell
\* main initialises, by <<channel, row>>
MkSong(shape, layout, bpm) ==
    [num_channels |-> MAX_CHANNELS,
     num_rows |-> shape.num_rows,
     bpm |-> bpm,
     loop_start |-> shape.loop_start,
     loop_end |-> shape.loop_end,
     loop_enabled |-> shape.loop_enabled,
     channels |->
        [p \in {q \in {<<0, 0>>} : layout.a # "rest"}
               \cup {q \in {<<layout.b.ch, layout.b.row>>} : layout.b.kind # "rest"} |->
            IF p = <<layout.b.ch, layout.b.row>> /\ layout.b.kind # "rest"
            THEN CellOf(layout.b.kind, bpm)
            ELSE CellOf(layout.a, bpm)]]

\* song->channels[ch].cells[row]
CellAt(s, ch, row) ==
    IF <<ch, row>> \in DOMAIN s.channels THEN s.channels[<<ch, row>>]
    ELSE RestCell(s.bpm)

Songs ==
    {MkSong(sh, ly, b) : sh \in Shapes, ly \in FewLayouts, b \in BpmSet}
    \cup {MkSong(sh, ly, 120) : sh \in FewShapes, ly \in Layouts}

\* 0 <= loop_start < loop_end < row_count
ValidLoop(s) == 0 <= s.loop_start /\ s.loop_start < s.loop_end /\ s.loop_end < s.num_rows

(* ---------------- state ---------------- *)
VARIABLES
    song,            \* the Song of main
    pc,              \* where the program is: "menu", or a step of a session
    tone_threads,    \* tone_threads[ch].active
    sample_threads,  \* sample_threads[ch].active
    global_playing,  \* the playback flag
    current_row,     \* current_row of play_song / save_song_to_wav
    loop_count,      \* loop_count of play_song
    key_pending,     \* a key is waiting on stdin (what kbhit() reports)
    voices,          \* the voice threads created and not yet returned
    started,         \* history: the rows play_row was entered with, in order
    launched,        \* history: <<index in started, channel, kind>> of every thread created
    stop_len,        \* history: Len(started) when a key arrived during a row, else -1
    total_rows,      \* save_song_to_wav: total_rows
    total_samples,   \* save_song_to_wav: total_samples
    loops_done,      \* save_song_to_wav: loops_done
    audio_buffer,    \* save_song_to_wav: the master buffer at the observed frames
    slot_rows,       \* history: actual_row of every row slot rendered, in order
    mixed,           \* history: <<slot, channel, kind>> of every voice rendered
    nomem,           \* history: <<slot, channel, block>> of every allocation refused to a voice
    wav_file,        \* the file written by the last export, or NoFile
    export_result,   \* return value of the last save_song_to_wav, or -1
    note_duration,   \* note_duration of the running play_song / play_row / save_song_to_wav
    reported,        \* the error messages of play_song / play_current_row, if main ran it last
    call,            \* a call of pitch_shift_sample: its arguments and what it returned
    subsystems,      \* what is open of the audio output: "SDL" (SDL_Init), "Mixer" (Mix_OpenAudio)
    heap,            \* the blocks save_song_to_wav holds: "audio_buffer"
    mutex            \* audio_mutex: "free", or held by "main" or by a "voice"

liveVars == <<tone_threads, sample_threads, global_playing, loop_count,
              key_pending, voices, started, launched, stop_len>>
exportVars == <<total_rows, total_samples, loops_done, audio_buffer,
                slot_rows, mixed, nomem, wav_file, export_result>>
resourceVars == <<subsystems, heap, mutex>>
vars == <<song, pc, current_row, liveVars, exportVars, note_duration, reported, call,
          resourceVars>>

NoFile == [exists |-> FALSE]

\* no call of pitch_shift_sample is being looked at
NoCall == [state |-> "none"]

AllInactive == [ch \in Channels |-> 0]

\* main before its first command, the song apart
Idle ==
    /\ pc = "menu"
    /\ tone_threads = AllInactive
    /\ sample_threads = AllInactive
    /\ global_playing = 0
    /\ current_row = 0
    /\ loop_count = 0
    /\ key_pending = FALSE
    /\ voices = {}
    /\ started = <<>>
    /\ launched = {}
    /\ stop_len = -1
    /\ total_rows = 0
    /\ total_samples = 0
    /\ loops_done = 0
    /\ audio_buffer = <<>>
    /\ slot_rows = <<>>
    /\ mixed = {}
    /\ nomem = {}
    /\ wav_file = NoFile
    /\ export_result = -1
    /\ note_duration = 0
    /\ reported = <<>>
    /\ subsystems = {}
    /\ heap = {}
    /\ mutex = "free"

\* SDL_Init and Mix_OpenAudio have both succeeded
AudioOpen == {"SDL", "Mixer"}

Init ==
    /\ song \in Songs
    /\ Idle
    /\ call = NoCall

(* ---------------- live playback: play_song, play_row ---------------- *)
\* the choice without the note > 0 test of the sample branch
VoiceKindAnyNote(c) ==
    IF c.sample # "" THEN "sample" ELSE IF c.note > 0 THEN "tone" ELSE "none"
\* the choice without the sample branch
VoiceKindToneOnly(c) == IF c.note > 0 THEN "tone" ELSE "none"
\* play_row's choice for a cell: a sample thread, a tone thread, or nothing
VoiceKind(c) ==
    IF c.sample # "" /\ c.note > 0 THEN "sample"
    ELSE IF c.note > 0 THEN "tone" ELSE "none"

\* a poll that never sees the key
KbhitNever(k) == FALSE
\* kbhit(): is a key waiting
Kbhit(k) == k

\* the advance with a wrap to row 0 instead of loop_start
AdvanceRowWrapZero(s, row) ==
    LET next == row + 1
    IN  IF s.loop_enabled # 0
        THEN IF next > s.loop_end THEN <<0, TRUE, TRUE>>
                                  ELSE <<next, FALSE, TRUE>>
        ELSE IF next >= s.num_rows THEN <<next, FALSE, FALSE>>
                                   ELSE <<next, FALSE, TRUE>>
\* the row after `row`: <<next row, loop wrapped, playback goes on>>
AdvanceRow(s, row) ==
    LET next == row + 1
    IN  IF s.loop_enabled # 0
        THEN IF next > s.loop_end THEN <<s.loop_start, TRUE, TRUE>>
                                  ELSE <<next, FALSE, TRUE>>
        ELSE IF next >= s.num_rows THEN <<next, FALSE, FALSE>>
                                   ELSE <<next, FALSE, TRUE>>

\* the failure reported, and the session started all the same
PlaySongOpenFailPlays ==
    /\ pc = "menu"
    /\ \E e \in {"SDL_Init error", "Mix_OpenAudio error"} : reported' = <<e>>
    /\ tone_threads' = AllInactive
    /\ sample_threads' = AllInactive
    /\ global_playing' = 1
    /\ current_row' = 0
    /\ note_duration' = get_note_duration_ms(song)
    /\ pc' = "row_cancel"
    /\ UNCHANGED <<song, loop_count, key_pending, voices, started, launched,
                   stop_len, exportVars, call, resourceVars>>
\* SDL_Init or Mix_OpenAudio fails: play_song reports it and returns
PlaySongOpenFail ==
    /\ pc = "menu"
    /\ \E e \in {"SDL_Init error", "Mix_OpenAudio error"} : reported' = <<e>>
    /\ UNCHANGED <<song, pc, current_row, tone_threads, sample_threads,
                   global_playing, loop_count, key_pending, voices, started,
                   launched, stop_len, exportVars, note_duration, call, resourceVars>>

\* play_song up to the first test of while (global_playing)
PlaySongStart ==
    /\ pc = "menu"
    /\ tone_threads' = AllInactive
    /\ sample_threads' = AllInactive
    /\ global_playing' = 1
    /\ current_row' = 0
    /\ loop_count' = 0
    /\ key_pending' = FALSE
    /\ voices' = {[v EXCEPT !.born = 0] : v \in voices}
    /\ started' = <<>>
    /\ launched' = {}
    /\ stop_len' = -1
    /\ export_result' = -1
    /\ note_duration' = get_note_duration_ms(song)
    /\ reported' = <<>>
    /\ pc' = "row_cancel"
    /\ UNCHANGED <<song, total_rows, total_samples, loops_done, audio_buffer,
                   slot_rows, mixed, nomem, wav_file, call, heap, mutex>>
    /\ subsystems' = AudioOpen

\* play_row, first half: "Row %02d", clear every active flag, SDL_Delay(10)
PlayRowCancel ==
    /\ pc \in {"row_cancel", "one_cancel"}
    /\ Len(started) < MaxSteps
    /\ \A v \in voices : v.born >= Len(started) + 1 - MaxOverlap
    /\ started' = Append(started, current_row)
    /\ tone_threads' = AllInactive
    /\ sample_threads' = AllInactive
    /\ note_duration' = get_note_duration_ms(song)
    /\ pc' = IF pc = "row_cancel" THEN "row_launch" ELSE "one_launch"
    /\ UNCHANGED <<song, current_row, global_playing, loop_count, key_pending,
                   voices, launched, stop_len, reported, exportVars, call, resourceVars>>

\* play_row, second half: one thread per channel with an active note
PlayRowLaunch ==
    /\ pc \in {"row_launch", "one_launch"}
    /\ LET idx == Len(started)
           kind(ch) == IF ch < song.num_channels
                       THEN VoiceKind(CellAt(song, ch, current_row))
                       ELSE "none"
           on == {ch \in Channels : kind(ch) # "none"}
       IN  /\ sample_threads' =
                [ch \in Channels |-> IF kind(ch) = "sample" THEN 1 ELSE sample_threads[ch]]
           /\ tone_threads' =
                [ch \in Channels |-> IF kind(ch) = "tone" THEN 1 ELSE tone_threads[ch]]
           /\ voices' = voices \cup
                {[kind |-> kind(ch), ch |-> ch, born |-> idx,
                  duration_ms |-> note_duration,
                  file |-> CellAt(song, ch, current_row).sample] : ch \in on}
           /\ launched' = launched \cup {<<idx, ch, kind(ch)>> : ch \in on}
    /\ pc' = IF pc = "row_launch" THEN "row_wait" ELSE "one_wait"
    /\ UNCHANGED <<song, current_row, global_playing, loop_count, key_pending,
                   started, stop_len, reported, exportVars, note_duration, call, resourceVars>>

\* SDL_Delay(note_duration) is over: poll the keyboard, then advance the row
PlayRowPoll ==
    /\ pc = "row_wait"
    /\ IF Kbhit(key_pending)
       THEN /\ key_pending' = FALSE
            /\ global_playing' = 0
            /\ pc' = "drain"
            /\ UNCHANGED <<current_row, loop_count>>
       ELSE LET nx == AdvanceRow(song, current_row)
            IN  /\ current_row' = nx[1]
                /\ loop_count' = IF nx[2] THEN loop_count + 1 ELSE loop_count
                /\ pc' = IF nx[3] THEN "row_cancel" ELSE "drain"
                /\ UNCHANGED <<key_pending, global_playing>>
    /\ UNCHANGED <<song, tone_threads, sample_threads, voices, started, launched,
                   stop_len, reported, exportVars, note_duration, call, resourceVars>>

\* the end of a session that also switches the song's loop off
PlaySongDrainLoopOff ==
    /\ pc = "drain"
    /\ song' = [song EXCEPT !.loop_enabled = 0]
    /\ tone_threads' = AllInactive
    /\ sample_threads' = AllInactive
    /\ pc' = "menu"
    /\ current_row' = 0
    /\ loop_count' = 0
    /\ key_pending' = FALSE
    /\ started' = <<>>
    /\ launched' = {}
    /\ stop_len' = -1
    /\ note_duration' = 0
    /\ subsystems' = {}
    /\ UNCHANGED <<global_playing, voices, reported, exportVars, call, heap, mutex>>
\* after the loop: clear every flag, SDL_Delay(100), close the device and
\* return to the menu, whose getch() takes whatever key is waiting.  The
\* locals and the histories of the session end with it.
PlaySongDrain ==
    /\ pc = "drain"
    /\ tone_threads' = AllInactive
    /\ sample_threads' = AllInactive
    /\ pc' = "menu"
    /\ current_row' = 0
    /\ loop_count' = 0
    /\ key_pending' = FALSE
    /\ started' = <<>>
    /\ launched' = {}
    /\ stop_len' = -1
    /\ note_duration' = 0
    /\ UNCHANGED <<song, global_playing, voices, reported, exportVars, call, heap, mutex>>
    /\ subsystems' = {}

(* ---------------- live playback: play_current_row ---------------- *)
\* SDL_Init or Mix_OpenAudio fails: play_current_row reports it and returns
PlayCurrentRowOpenFail ==
    /\ pc = "menu"
    /\ \E e \in {"SDL_Init error", "Mix_OpenAudio error"} : reported' = <<e>>
    /\ UNCHANGED <<song, pc, current_row, tone_threads, sample_threads,
                   global_playing, loop_count, key_pending, voices, started,
                   launched, stop_len, exportVars, note_duration, call, resourceVars>>

\* play_current_row(song, cursor_row) up to its call of play_row
PlayCurrentRowStart ==
    /\ pc = "menu"
    /\ \E row \in RowIdx : current_row' = row
    /\ tone_threads' = AllInactive
    /\ sample_threads' = AllInactive
    /\ voices' = {[v EXCEPT !.born = 0] : v \in voices}
    /\ started' = <<>>
    /\ launched' = {}
    /\ export_result' = -1
    /\ reported' = <<>>
    /\ pc' = "one_cancel"
    /\ UNCHANGED <<song, global_playing, loop_count, key_pending, stop_len,
                   total_rows, total_samples, loops_done, audio_buffer,
                   slot_rows, mixed, nomem, wav_file, note_duration, call, heap, mutex>>
    /\ subsystems' = AudioOpen

\* play_row has returned: clear every flag, SDL_Delay(100), close the
\* device and return to the menu
PlayCurrentRowEnd ==
    /\ pc = "one_wait"
    /\ tone_threads' = AllInactive
    /\ sample_threads' = AllInactive
    /\ pc' = "menu"
    /\ current_row' = 0
    /\ started' = <<>>
    /\ launched' = {}
    /\ note_duration' = 0
    /\ UNCHANGED <<song, global_playing, loop_count, key_pending, voices,
                   stop_len, reported, exportVars, call, heap, mutex>>
    /\ subsystems' = {}

\* the user presses a key while play_song runs
KeyPress ==
    /\ pc \in {"row_cancel", "row_launch", "row_wait"}
    /\ ~key_pending
    /\ key_pending' = TRUE
    /\ stop_len' = IF stop_len = -1 /\ pc \in {"row_launch", "row_wait"}
                   THEN Len(started) ELSE stop_len
    /\ UNCHANGED <<song, pc, current_row, tone_threads, sample_threads,
                   global_playing, loop_count, voices, started, launched,
                   reported, exportVars, note_duration, call, resourceVars>>

(* ---------------- voice threads ---------------- *)
\* play_tone_thread / play_sample_thread run to their end: data->active = 0
VoiceFinish(v) ==
    /\ v \in voices
    /\ v.kind = "sample" => Loadable(v.file)
    /\ voices' = voices \ {v}
    /\ IF v.kind = "tone"
       THEN /\ tone_threads' = [tone_threads EXCEPT ![v.ch] = 0]
            /\ UNCHANGED sample_threads
       ELSE /\ sample_threads' = [sample_threads EXCEPT ![v.ch] = 0]
            /\ UNCHANGED tone_threads
    /\ UNCHANGED <<song, pc, current_row, global_playing, loop_count, key_pending,
                   started, launched, stop_len, reported, exportVars,
                   note_duration, call, resourceVars>>

\* an early return NULL: the start-up check finds the flag cleared, the
\* asset does not load, or (tone) the buffer or the device is refused
VoiceAbort(v) ==
    /\ v \in voices
    /\ \/ v.kind = "tone"
       \/ v.kind = "sample" /\ (sample_threads[v.ch] = 0 \/ ~Loadable(v.file))
    /\ voices' = voices \ {v}
    /\ UNCHANGED <<song, pc, current_row, tone_threads, sample_threads,
                   global_playing, loop_count, key_pending, started, launched,
                   stop_len, reported, exportVars, note_duration, call, resourceVars>>

(* ---------------- offline export: save_song_to_wav ---------------- *)
\* total_rows as save_song_to_wav computes it
TotalRows(s) ==
    IF s.loop_enabled # 0 /\ s.loop_end > s.loop_start
    THEN (s.loop_end - s.loop_start + 1) * 4
    ELSE s.num_rows

\* the length with the division done per row
TotalSamplesPerRow(s) ==
    TotalRows(s) * TruncDiv(get_note_duration_ms(s) * SAMPLE_RATE, 1000)
\* total_samples = total_rows * note_duration * SAMPLE_RATE / 1000
TotalSamples(s) ==
    TruncDiv(TotalRows(s) * get_note_duration_ms(s) * SAMPLE_RATE, 1000)

\* start_sample = current_row * note_duration * SAMPLE_RATE / 1000
StartSample(s, k) == TruncDiv(k * get_note_duration_ms(s) * SAMPLE_RATE, 1000)

\* row_samples = note_duration * SAMPLE_RATE / 1000
RowSamples(s) == TruncDiv(get_note_duration_ms(s) * SAMPLE_RATE, 1000)

\* the frames of the master buffer the model observes
ProbeFrames(s) ==
    {f \in {StartSample(s, k) + j : k \in 0 .. (TotalRows(s) - 1),
                                    j \in 0 .. (NumProbes - 1)}
           \cup {TotalSamples(s) - 1} :
        0 <= f /\ f < TotalSamples(s)}

\* the pattern row a row slot is rendered from: <<actual_row, wrapped>>
ActualRow(s, k) ==
    LET actual_row == k % s.num_rows
    IN  IF s.loop_enabled # 0 /\ actual_row > s.loop_end
        THEN <<s.loop_start, TRUE>>
        ELSE <<actual_row, FALSE>>

\* if (loops_done >= 4) break;
LoopsLimit(n) == n >= 4

\* the choice with a sample mixed whatever the note is
RenderKindAnySample(c) ==
    IF c.sample # "" THEN "sample" ELSE IF c.note > 0 THEN "tone" ELSE "none"
\* the renderer's choice for a cell
RenderKind(c) ==
    IF c.note > 0 THEN (IF c.sample # "" THEN "sample" ELSE "tone") ELSE "none"

\* the mono buffer of a sample voice: the decoded asset, pitch shifted
SampleData(c) ==
    IF FarFromOne(c.pitch_ratio)
    THEN pitch_shift_sample(AssetData(c.sample), c.pitch_ratio)
    ELSE AssetData(c.sample)

\* does the voice of cell c write frame i of its row buffer
VoiceWrites(c, i, row_samples) ==
    IF c.sample # ""
    THEN Loadable(c.sample) /\ i < Min(Len(SampleData(c)), row_samples)
    ELSE TRUE

\* the mono sample the voice mixes in at frame i, where it writes one
VoiceSample(c, i, row_samples) ==
    IF c.sample # "" THEN SampleData(c)[i + 1] ELSE ToneSample(c.note, i)

\* float pan = ch < 4 ? 0.7f : 0.3f, in tenths
Pan(ch) == IF ch < 4 THEN 7 ELSE 3

\* (Sint16)(sample * gain) for gain = tenths / 10 in float arithmetic
Scale(sample, tenths) == TruncDiv(sample * tenths, 10)

\* frame i of a channel's row buffer after its voice is mixed in: <<left, right>>
RowBufferFrame(ch, c, i, row_samples) ==
    LET smp == VoiceSample(c, i, row_samples)
    IN  IF ~VoiceWrites(c, i, row_samples) THEN <<0, 0>>
        ELSE IF ch < 4
             THEN <<Clamp16(0 + Scale(smp, Pan(ch))), 0>>
             ELSE <<0, Clamp16(0 + Scale(smp, 10 - Pan(ch)))>>

\* "Mix row buffer into main buffer" for one channel
MixChannel(buf, ch, c, start_sample, row_samples) ==
    [f \in DOMAIN buf |->
        LET i == f - start_sample
        IN  IF 0 <= i /\ i < row_samples
            THEN LET rb == RowBufferFrame(ch, c, i, row_samples)
                 IN  <<Clamp16(buf[f][1] + rb[1]), Clamp16(buf[f][2] + rb[2])>>
            ELSE buf[f]]

\* the channel loop of one row, channels ch .. num_channels - 1
RECURSIVE MixRow(_, _, _, _, _)
\* the loop leaving the row at the first sample that does not load
MixRowLeaveOnFailure(buf, s, ch, actual_row, k) ==
    IF ch >= s.num_channels THEN buf
    ELSE IF \E x \in ch .. (s.num_channels - 1) :
                LET d == CellAt(s, x, actual_row)
                IN  RenderKind(d) = "sample" /\ ~Loadable(d.sample)
    THEN buf
    ELSE LET c == CellAt(s, ch, actual_row)
         IN  MixRow(IF RenderKind(c) # "none"
                    THEN MixChannel(buf, ch, c, StartSample(s, k), RowSamples(s))
                    ELSE buf,
                    s, ch + 1, actual_row, k)
MixRow(buf, s, ch, actual_row, k) ==
    IF ch >= s.num_channels THEN buf
    ELSE LET c == CellAt(s, ch, actual_row)
         IN  MixRow(IF RenderKind(c) # "none"
                    THEN MixChannel(buf, ch, c, StartSample(s, k), RowSamples(s))
                    ELSE buf,
                    s, ch + 1, actual_row, k)

\* what save_song_to_wav holds when the step `stage` fails
HeldAt(stage) ==
    CASE stage = "calloc"        -> [heap |-> {}, subsystems |-> {}]
      [] stage = "SDL_Init"      -> [heap |-> {"audio_buffer"}, subsystems |-> {}]
      [] stage = "Mix_OpenAudio" -> [heap |-> {"audio_buffer"}, subsystems |-> {"SDL"}]
      [] OTHER                   -> [heap |-> {"audio_buffer"}, subsystems |-> AudioOpen]

\* the failing return without the calls that close the audio output
ReleasedAtBufferOnly(stage) ==
    IF stage = "calloc" THEN [heap |-> {}, subsystems |-> {}]
    ELSE [heap |-> {"audio_buffer"}, subsystems |-> {}]
\* what the failing return of `stage` gives back: free(audio_buffer),
\* Mix_CloseAudio(), SDL_Quit()
ReleasedAt(stage) ==
    CASE stage = "calloc"        -> [heap |-> {}, subsystems |-> {}]
      [] stage = "SDL_Init"      -> [heap |-> {"audio_buffer"}, subsystems |-> {}]
      [] stage = "Mix_OpenAudio" -> [heap |-> {"audio_buffer"}, subsystems |-> {"SDL"}]
      [] OTHER                   -> [heap |-> {"audio_buffer"}, subsystems |-> AudioOpen]

\* calloc of the master buffer, SDL_Init or Mix_OpenAudio fails: return 0
ExportStartFail ==
    /\ pc = "menu"
    /\ \E stage \in {"calloc", "SDL_Init", "Mix_OpenAudio"} :
          /\ heap' = HeldAt(stage).heap \ ReleasedAt(stage).heap
          /\ subsystems' = HeldAt(stage).subsystems \ ReleasedAt(stage).subsystems
    /\ export_result' = 0
    /\ reported' = <<>>
    /\ UNCHANGED <<song, pc, current_row, liveVars, total_rows, total_samples,
                   loops_done, audio_buffer, slot_rows, mixed, nomem, wav_file,
                   note_duration, call, mutex>>

\* save_song_to_wav up to the first test of while (current_row < total_rows)
ExportStart ==
    /\ pc = "menu"
    /\ total_rows' = TotalRows(song)
    /\ total_samples' = TotalSamples(song)
    /\ audio_buffer' = [f \in ProbeFrames(song) |-> <<0, 0>>]
    /\ current_row' = 0
    /\ loops_done' = 0
    /\ slot_rows' = <<>>
    /\ mixed' = {}
    /\ nomem' = {}
    /\ export_result' = -1
    /\ note_duration' = get_note_duration_ms(song)
    /\ reported' = <<>>
    /\ pc' = IF 0 < TotalRows(song) THEN "render" ELSE "write"
    /\ UNCHANGED <<song, liveVars, wav_file, call, mutex>>
    /\ heap' = {"audio_buffer"}
    /\ subsystems' = AudioOpen

\* current_row % song->num_rows with num_rows = 0: the process dies (SIGFPE)
ExportCrash ==
    /\ pc = "render"
    /\ song.num_rows = 0
    /\ pc' = "crashed"
    /\ UNCHANGED <<song, current_row, liveVars, exportVars, note_duration,
                   reported, call, resourceVars>>

\* the blocks a voice of the export needs: the row buffer (calloc), and for
\* a sample that loads its mono data (malloc, or pitch_shift_sample's malloc)
BlocksOf(c) ==
    IF RenderKind(c) = "sample" /\ Loadable(c.sample)
    THEN {"row_buffer", "sample_data"} ELSE {"row_buffer"}

\* the song as the channel loop treats it when the allocations `refused`
\* (pairs <<channel, block>>) of pattern row actual_row fail: without its
\* row buffer a channel is skipped (continue), without its sample data
\* nothing is mixed into the row buffer
WithoutVoices(s, refused, actual_row) ==
    [s EXCEPT !.channels =
        [p \in {q \in DOMAIN s.channels :
                    ~(q[2] = actual_row /\ \E r \in refused : r[1] = q[1])} |->
            s.channels[p]]]

\* one iteration of the row loop, the allocations `refused` failing
ExportRowWith(refused) ==
    /\ pc = "render"
    /\ song.num_rows # 0
    /\ LET ar == ActualRow(song, current_row)
           done == IF ar[2] THEN loops_done + 1 ELSE loops_done
           failed == {r[1] : r \in refused}
       IN  /\ loops_done' = done
           /\ IF ar[2] /\ LoopsLimit(done)
              THEN /\ refused = {}
                   /\ pc' = "write"
                   /\ UNCHANGED <<current_row, audio_buffer, slot_rows, mixed, nomem>>
              ELSE /\ \A r \in refused :
                         /\ r[1] < song.num_channels
                         /\ RenderKind(CellAt(song, r[1], ar[1])) # "none"
                         /\ r[2] \in BlocksOf(CellAt(song, r[1], ar[1]))
                   /\ audio_buffer' = MixRow(audio_buffer,
                                             WithoutVoices(song, refused, ar[1]),
                                             0, ar[1], current_row)
                   /\ slot_rows' = Append(slot_rows, ar[1])
                   /\ mixed' = mixed \cup
                        {<<current_row, ch, RenderKind(CellAt(song, ch, ar[1]))>> :
                            ch \in {x \in Channels \ failed :
                                        /\ x < song.num_channels
                                        /\ RenderKind(CellAt(song, x, ar[1])) # "none"}}
                   /\ nomem' = nomem \cup {<<current_row, r[1], r[2]>> : r \in refused}
                   /\ current_row' = current_row + 1
                   /\ pc' = IF current_row + 1 < total_rows THEN "render" ELSE "write"
    /\ UNCHANGED <<song, liveVars, total_rows, total_samples, wav_file,
                   export_result, note_duration, reported, call, resourceVars>>

\* one iteration of the row loop, every allocation granted
ExportRow ==
    /\ pc = "render"
    /\ ExportRowWith({})

\* one iteration of the row loop in which calloc or malloc returns NULL to
\* one of the voices
ExportRowNoMem ==
    /\ Cardinality(nomem) < MaxNoMem
    /\ \E ch \in Channels, block \in {"row_buffer", "sample_data"} :
          ExportRowWith({<<ch, block>>})

\* the WavHeader save_song_to_wav fills in.  total_samples comes from an int
\* divided by 1000, so every uint32 field below stays far under 2^32 and
\* none of them wraps.
\* the size without sizeof(Sint16)
HeaderDataSizeFrames(n) == n * 2
\* header.data_size = total_samples * 2 * sizeof(Sint16)
HeaderDataSize(n) == n * 2 * 2

WavHeader(n) ==
    [riff |-> "RIFF", wave |-> "WAVE", fmt |-> "fmt ", data |-> "data",
     fmt_size |-> 16,
     audio_format |-> 1,
     num_channels |-> 2,
     sample_rate |-> SAMPLE_RATE,
     bits_per_sample |-> 16,
     block_align |-> (2 * 16) \div 8,
     byte_rate |-> SAMPLE_RATE * ((2 * 16) \div 8),
     data_size |-> HeaderDataSize(n),
     file_size |-> HeaderDataSize(n) + WavHeaderSize - 8]

\* the locals and the histories of an export end with it
ExportReturn ==
    /\ pc' = "menu"
    /\ current_row' = 0
    /\ total_rows' = 0
    /\ total_samples' = 0
    /\ loops_done' = 0
    /\ audio_buffer' = <<>>
    /\ slot_rows' = <<>>
    /\ mixed' = {}
    /\ nomem' = {}
    /\ note_duration' = 0

\* fopen fails: free the buffer, return 0
ExportOpenFail ==
    /\ pc = "write"
    /\ export_result' = 0
    /\ ExportReturn
    /\ heap' = heap \ ReleasedAt("fopen").heap
    /\ subsystems' = subsystems \ ReleasedAt("fopen").subsystems
    /\ UNCHANGED <<song, liveVars, wav_file, reported, call, mutex>>

\* fopen, the two fwrite calls, fclose: return 1
ExportWrite ==
    /\ pc = "write"
    /\ wav_file' = [exists |-> TRUE,
                    header |-> WavHeader(total_samples),
                    header_bytes |-> WavHeaderSize,
                    samples_written |-> total_samples * 2,
                    data |-> audio_buffer]
    /\ export_result' = 1
    /\ ExportReturn
    /\ UNCHANGED <<song, liveVars, reported, call, mutex>>
    /\ heap' = {}
    /\ subsystems' = {}

Next ==
    \/ PlaySongOpenFail
    \/ PlaySongStart
    \/ PlayRowCancel
    \/ PlayRowLaunch
    \/ PlayRowPoll
    \/ PlaySongDrain
    \/ PlayCurrentRowOpenFail
    \/ PlayCurrentRowStart
    \/ PlayCurrentRowEnd
    \/ KeyPress
    \/ \E v \in voices : VoiceFinish(v)
    \/ \E v \in voices : VoiceAbort(v)
    \/ ExportStartFail
    \/ ExportStart
    \/ ExportCrash
    \/ ExportRow
    \/ ExportOpenFail
    \/ ExportWrite

Spec == Init /\ [][Next]_vars

(* ---------------- the export when memory runs out ---------------- *)
\* Spec grants every allocation of the row loop.  NoMemSpec follows the
\* exports of the songs with a complete pattern in which calloc or malloc
\* may return NULL to a voice.
NoMemInit ==
    /\ song \in {MkSong(sh, ly, 120) : sh \in FewShapes, ly \in Layouts}
    /\ Idle
    /\ call = NoCall

NoMemNext ==
    \/ ExportStartFail
    \/ ExportStart
    \/ ExportRow
    \/ ExportRowNoMem
    \/ ExportOpenFail
    \/ ExportWrite

NoMemSpec == NoMemInit /\ [][NoMemNext]_vars

(* ---------------- one voice slot, lock by lock ---------------- *)
\* Spec takes play_row's two loops and a voice thread's run as single
\* steps.  SlotSpec follows play_song and the threads it creates from one
\* access of the voice slots to the next, with audio_mutex: which thread
\* is about to read or write a slot, and whether it holds the mutex.  Its
\* songs have their voices on channel 0, so that the slots of the other
\* channels stay inactive throughout.
SlotSongs ==
    {MkSong([num_rows |-> 2, loop_enabled |-> 0, loop_start |-> 0, loop_end |-> MAX_ROWS - 1],
            [a |-> ka, b |-> [ch |-> 0, row |-> 1, kind |-> kb]], 120) :
        ka \in {"tone", "smp"}, kb \in {"rest", "tone", "smp"}}

SlotInit ==
    /\ song \in SlotSongs
    /\ Idle
    /\ call = NoCall

\* what no step of SlotSpec changes
slotRest == <<song, global_playing, loop_count, key_pending, launched, stop_len,
              exportVars, note_duration, reported, call, heap>>

\* the slot arrays after `data->active = val` on the slot of kind, ch
WriteActive(arr, of_kind, kind, ch, val) ==
    IF kind = of_kind THEN [arr EXCEPT ![ch] = val] ELSE arr

\* play_song to its slot initialisation: the output is open
SlotPlaySong ==
    /\ pc = "menu"
    /\ pc' = "s_init"
    /\ current_row' = 0
    /\ started' = <<>>
    /\ voices' = {[v EXCEPT !.born = 0] : v \in voices}
    /\ subsystems' = AudioOpen
    /\ UNCHANGED <<tone_threads, sample_threads, mutex, slotRest>>

\* "Initialize thread data": active = 0 for every slot, audio_mutex not taken
SlotInitFlags ==
    /\ pc = "s_init"
    /\ tone_threads' = AllInactive
    /\ sample_threads' = AllInactive
    /\ pc' = "s_cancel_lock"
    /\ UNCHANGED <<current_row, started, voices, subsystems, mutex, slotRest>>

\* play_row: pthread_mutex_lock of the "Stop all previous playback" loop
SlotCancelLock ==
    /\ pc = "s_cancel_lock"
    /\ mutex = "free"
    /\ \A v \in voices : v.born >= Len(started) + 1 - MaxOverlap
    /\ mutex' = "main"
    /\ started' = Append(started, current_row)
    /\ pc' = "s_cancel"
    /\ UNCHANGED <<current_row, tone_threads, sample_threads, voices, subsystems,
                   slotRest>>

\* ... active = 0 on both slots, pthread_mutex_unlock, SDL_Delay(10)
SlotCancel ==
    /\ pc = "s_cancel"
    /\ tone_threads' = AllInactive
    /\ sample_threads' = AllInactive
    /\ mutex' = "free"
    /\ pc' = "s_launch_lock"
    /\ UNCHANGED <<current_row, started, voices, subsystems, slotRest>>

\* play_row: the cell of the row; pthread_mutex_lock if it has a voice
SlotLaunchLock ==
    /\ pc = "s_launch_lock"
    /\ IF VoiceKind(CellAt(song, 0, current_row)) = "none"
       THEN pc' = "s_wait" /\ UNCHANGED mutex
       ELSE mutex = "free" /\ mutex' = "main" /\ pc' = "s_launch"
    /\ UNCHANGED <<current_row, started, tone_threads, sample_threads, voices,
                   subsystems, slotRest>>

\* ... the slot's parameters, active = 1, pthread_create, pthread_detach,
\* pthread_mutex_unlock
SlotLaunch ==
    /\ pc = "s_launch"
    /\ LET kind == VoiceKind(CellAt(song, 0, current_row))
       IN  /\ tone_threads' = WriteActive(tone_threads, "tone", kind, 0, 1)
           /\ sample_threads' = WriteActive(sample_threads, "sample", kind, 0, 1)
           /\ voices' = voices \cup
                 {[kind |-> kind, ch |-> 0, born |-> Len(started), at |-> "check"]}
    /\ mutex' = "free"
    /\ pc' = "s_wait"
    /\ UNCHANGED <<current_row, started, subsystems, slotRest>>

\* SDL_Delay(note_duration), then play_song's kbhit() and row advance
SlotPoll ==
    /\ pc = "s_wait"
    /\ \E key \in BOOLEAN :
          IF Kbhit(key)
          THEN pc' = "s_end_lock" /\ UNCHANGED current_row
          ELSE LET nx == AdvanceRow(song, current_row)
               IN  /\ current_row' = nx[1]
                   /\ pc' = IF nx[3] THEN "s_cancel_lock" ELSE "s_end_lock"
    /\ UNCHANGED <<started, tone_threads, sample_threads, voices, subsystems,
                   mutex, slotRest>>

\* play_song: pthread_mutex_lock of the "Stop all playback" loop
SlotEndLock ==
    /\ pc = "s_end_lock"
    /\ mutex = "free"
    /\ mutex' = "main"
    /\ pc' = "s_end"
    /\ UNCHANGED <<current_row, started, tone_threads, sample_threads, voices,
                   subsystems, slotRest>>

\* ... active = 0 on both slots, pthread_mutex_unlock
SlotEnd ==
    /\ pc = "s_end"
    /\ tone_threads' = AllInactive
    /\ sample_threads' = AllInactive
    /\ mutex' = "free"
    /\ pc' = "s_close"
    /\ UNCHANGED <<current_row, started, voices, subsystems, slotRest>>

\* SDL_Delay(100), Mix_CloseAudio, SDL_Quit, back to the menu
SlotClose ==
    /\ pc = "s_close"
    /\ subsystems' = {}
    /\ current_row' = 0
    /\ started' = <<>>
    /\ pc' = "menu"
    /\ UNCHANGED <<tone_threads, sample_threads, voices, mutex, slotRest>>

\* a thread's first statement: if (... || !data->active) return NULL;
\* audio_mutex not taken
SlotVoiceCheck(v) ==
    /\ v \in voices
    /\ v.at = "check"
    /\ voices' = IF (IF v.kind = "tone" THEN tone_threads[v.ch]
                                        ELSE sample_threads[v.ch]) = 0
                 THEN voices \ {v}
                 ELSE (voices \ {v}) \cup {[v EXCEPT !.at = "playing"]}
    /\ UNCHANGED <<pc, current_row, started, tone_threads, sample_threads,
                   subsystems, mutex, slotRest>>

\* the asset, the buffer or the device is refused: return NULL
SlotVoiceFail(v) ==
    /\ v \in voices
    /\ v.at = "playing"
    /\ voices' = voices \ {v}
    /\ UNCHANGED <<pc, current_row, started, tone_threads, sample_threads,
                   subsystems, mutex, slotRest>>

\* the voice has played for its SDL_Delay: pthread_mutex_lock
SlotVoiceLock(v) ==
    /\ v \in voices
    /\ v.at = "playing"
    /\ mutex = "free"
    /\ mutex' = "voice"
    /\ voices' = (voices \ {v}) \cup {[v EXCEPT !.at = "finish"]}
    /\ UNCHANGED <<pc, current_row, started, tone_threads, sample_threads,
                   subsystems, slotRest>>

\* ... data->active = 0, pthread_mutex_unlock, return NULL
SlotVoiceFinish(v) ==
    /\ v \in voices
    /\ v.at = "finish"
    /\ tone_threads' = WriteActive(tone_threads, "tone", v.kind, v.ch, 0)
    /\ sample_threads' = WriteActive(sample_threads, "sample", v.kind, v.ch, 0)
    /\ mutex' = "free"
    /\ voices' = voices \ {v}
    /\ UNCHANGED <<pc, current_row, started, subsystems, slotRest>>

SlotNext ==
    \/ SlotPlaySong
    \/ SlotInitFlags
    \/ SlotCancelLock
    \/ SlotCancel
    \/ SlotLaunchLock
    \/ SlotLaunch
    \/ SlotPoll
    \/ SlotEndLock
    \/ SlotEnd
    \/ SlotClose
    \/ \E v \in voices : SlotVoiceCheck(v)
    \/ \E v \in voices : SlotVoiceFail(v)
    \/ \E v \in voices : SlotVoiceLock(v)
    \/ \E v \in voices : SlotVoiceFinish(v)

SlotSpec == SlotInit /\ [][SlotNext]_vars

(* ---------------- pitch_shift_sample, called on its own ---------------- *)
\* The program calls pitch_shift_sample with the ratios of its cells only.
\* ResampleSpec calls it with every buffer of at most MaxLen samples and
\* with ratios below, inside and above [0.5, 2.0] and on both sides of the
\* 0.001 test.  All ratios are dyadic fractions, for which
\* every double operation of the function is exact.
Ratios ==
    {<<1, 4>>, <<1, 2>>, <<3, 4>>, <<1023, 1024>>, <<1, 1>>, <<1025, 1024>>,
     <<513, 512>>, <<5, 4>>, <<3, 2>>, <<2, 1>>, <<3, 1>>, <<4, 1>>}

SampleValues == {-32768, -3, 0, 5, 32767}

Buffers ==
    UNION {[1 .. n -> SampleValues] : n \in 0 .. MaxLen}

\* the song main initialises: MAX_ROWS rows of rests, bpm 120, loop off
InitialSong ==
    MkSong([num_rows |-> MAX_ROWS, loop_enabled |-> 0, loop_start |-> 0,
            loop_end |-> MAX_ROWS - 1],
           [a |-> "rest", b |-> [ch |-> 1, row |-> 0, kind |-> "rest"]], 120)

ResampleInit ==
    /\ song = InitialSong
    /\ Idle
    /\ call \in {[state |-> "args", original |-> b, pitch_ratio |-> r] :
                    b \in Buffers, r \in Ratios}

\* the call returns its buffer and *new_len; original is const
PitchShiftReturn ==
    /\ call.state = "args"
    /\ LET shifted == pitch_shift_sample(call.original, call.pitch_ratio)
       IN  call' = [state |-> "returned",
                    original |-> call.original,
                    pitch_ratio |-> call.pitch_ratio,
                    shifted |-> shifted,
                    new_len |-> Len(shifted),
                    original_after |-> call.original,
                    reads |-> SourceReads(Len(call.original), call.pitch_ratio)]
    /\ UNCHANGED <<song, pc, current_row, liveVars, exportVars, note_duration,
                   reported, resourceVars>>

\* malloc refuses the buffer: the call returns NULL
PitchShiftNoMem ==
    /\ call.state = "args"
    /\ call' = [state |-> "null",
                original |-> call.original,
                pitch_ratio |-> call.pitch_ratio]
    /\ UNCHANGED <<song, pc, current_row, liveVars, exportVars, note_duration,
                   reported, resourceVars>>

ResampleNext ==
    \/ PitchShiftReturn
    \/ PitchShiftNoMem

ResampleSpec == ResampleInit /\ [][ResampleNext]_vars

(* ---------------- the sample counts of the export, on their own ---------------- *)
\* the largest value of the int the counts are computed in
INT_MAX == 2147483647

\* a * b of two ints that are not negative stays inside int
MulFits(a, b) == a = 0 \/ b <= INT_MAX \div a

\* rows * note_duration * SAMPLE_RATE, evaluated from the left, stays inside int
CountFits(rows, duration) ==
    MulFits(rows, duration) /\ MulFits(rows * duration, SAMPLE_RATE)

\* signed overflow is undefined: what a count may be after it
UndefinedCounts == {0, INT_MAX \div 1000}

\* the bpm values change_bpm accepts, and the 0 get_note_duration_ms guards against
LayoutBpms == {0} \cup (20 .. 300)

\* loop windows of a song of MAX_ROWS rows: <<loop_start, loop_end>>
LayoutWindows ==
    {<<0, e>> : e \in 1 .. (MAX_ROWS - 1)} \cup {<<MAX_ROWS - 2, MAX_ROWS - 1>>}

\* the fields of the Song the counts depend on
LayoutSongs ==
    {[bpm |-> b, num_rows |-> n, loop_enabled |-> 0, loop_start |-> 0,
      loop_end |-> MAX_ROWS - 1] : b \in LayoutBpms, n \in 0 .. MAX_ROWS}
    \cup
    {[bpm |-> b, num_rows |-> MAX_ROWS, loop_enabled |-> 1, loop_start |-> w[1],
      loop_end |-> w[2]] : b \in LayoutBpms, w \in LayoutWindows}

LayoutInit ==
    /\ song = InitialSong
    /\ Idle
    /\ call \in {[state |-> "args", hdr |-> h] : h \in LayoutSongs}

\* save_song_to_wav up to its loop: note_duration, total_rows, total_samples
\* and the calloc of total_samples * 2 samples
LayoutStart ==
    /\ call.state = "args"
    /\ LET h == call.hdr
           fits == CountFits(TotalRows(h), get_note_duration_ms(h))
       IN  \E total \in IF fits THEN {TotalSamples(h)} ELSE UndefinedCounts :
             call' = [state |-> "loop",
                      hdr |-> h,
                      total_rows |-> TotalRows(h),
                      total_samples |-> total,
                      buffer_len |-> total * 2,
                      overflow |-> ~fits,
                      current_row |-> 0,
                      loops_done |-> 0,
                      end_sample |-> 0]
    /\ UNCHANGED <<song, pc, current_row, liveVars, exportVars, note_duration,
                   reported, resourceVars>>

\* one turn of the loop for a row that sounds: start_sample, row_samples and
\* the first and last dest_idx of "Mix row buffer into main buffer"
LayoutRow ==
    /\ call.state \in {"loop", "row"}
    /\ call.current_row < call.total_rows
    /\ LET h == call.hdr
           k == call.current_row
           wrapped == ActualRow(h, k)[2]
           loops == IF wrapped THEN call.loops_done + 1 ELSE call.loops_done
           fits == CountFits(k, get_note_duration_ms(h))
                     /\ CountFits(1, get_note_duration_ms(h))
       IN  /\ ~(wrapped /\ LoopsLimit(loops))
           /\ \E start \in IF fits THEN {StartSample(h, k)} ELSE UndefinedCounts,
                 len \in IF fits THEN {RowSamples(h)} ELSE UndefinedCounts :
                 call' = [state |-> "row",
                          hdr |-> h,
                          total_rows |-> call.total_rows,
                          total_samples |-> call.total_samples,
                          buffer_len |-> call.buffer_len,
                          overflow |-> call.overflow \/ ~fits,
                          k |-> k,
                          start_sample |-> start,
                          row_samples |-> len,
                          first_dest |-> start * 2,
                          last_dest |-> (start + len - 1) * 2 + 1,
                          prev_end |-> call.end_sample,
                          end_sample |-> start + len,
                          current_row |-> k + 1,
                          loops_done |-> loops]
    /\ UNCHANGED <<song, pc, current_row, liveVars, exportVars, note_duration,
                   reported, resourceVars>>

\* if (loops_done >= 4) break;
LayoutBreak ==
    /\ call.state \in {"loop", "row"}
    /\ call.current_row < call.total_rows
    /\ ActualRow(call.hdr, call.current_row)[2]
    /\ LoopsLimit(call.loops_done + 1)
    /\ call' = [state |-> "done", hdr |-> call.hdr, overflow |-> call.overflow,
                rendered |-> call.current_row, loops_done |-> call.loops_done + 1]
    /\ UNCHANGED <<song, pc, current_row, liveVars, exportVars, note_duration,
                   reported, resourceVars>>

\* while (current_row < total_rows) is over
LayoutDone ==
    /\ call.state \in {"loop", "row"}
    /\ call.current_row >= call.total_rows
    /\ call' = [state |-> "done", hdr |-> call.hdr, overflow |-> call.overflow,
                rendered |-> call.current_row, loops_done |-> call.loops_done]
    /\ UNCHANGED <<song, pc, current_row, liveVars, exportVars, note_duration,
                   reported, resourceVars>>

LayoutNext ==
    \/ LayoutStart
    \/ LayoutRow
    \/ LayoutBreak
    \/ LayoutDone

LayoutSpec == LayoutInit /\ [][LayoutNext]_vars

(* ---------------- the commands that change the song ---------------- *)
\* edit_cell, change_bpm, set_loop and load_song work cell by cell, so
\* EditSpec follows the song's header and the cells at two positions: the
\* first cell a file holds, and a cell of the last row, which a song of
\* fewer rows leaves out of range.
ObservedCells == {<<0, 0>>, <<0, MAX_ROWS - 1>>}

EditInit ==
    /\ song = [InitialSong EXCEPT !.channels = [p \in ObservedCells |-> RestCell(120)]]
    /\ Idle
    /\ call = NoCall

sessionVars == <<pc, current_row, liveVars, exportVars, note_duration, reported, call,
                 resourceVars>>

\* the cell is one the loops over num_channels and num_rows visit
InPattern(s, p) == p[1] < s.num_channels /\ p[2] < s.num_rows

\* edit_cell(song, row, channel) with the note, the file name and the
\* original note the user types (note_name_to_midi gives 0 for no note)
EditCell ==
    /\ pc = "menu"
    /\ \E p \in ObservedCells, note \in {0, 72}, sample \in {"", "loud.wav"},
          orig_note_input \in {0, 72} :
          LET old == song.channels[p]
              asked == sample # "" /\ note > 0
              original_note ==
                  IF asked THEN (IF orig_note_input <= 0 THEN 60 ELSE orig_note_input)
                  ELSE IF old.sample # "" THEN old.original_note
                  ELSE 60
          IN  song' = [song EXCEPT !.channels[p] =
                          [note |-> note,
                           original_note |-> original_note,
                           duration_ms |-> get_note_duration_ms(song),
                           sample |-> sample,
                           pitch_ratio |-> IF note > 0 /\ original_note > 0
                                           THEN calculate_pitch_ratio(original_note, note)
                                           ELSE <<1, 1>>]]
    /\ UNCHANGED sessionVars

\* change_bpm with the number the user types
ChangeBpm ==
    /\ pc = "menu"
    /\ \E new_bpm \in {19, 300} :
          IF new_bpm >= 20 /\ new_bpm <= 300
          THEN song' = [song EXCEPT
                          !.bpm = new_bpm,
                          !.channels = [p \in DOMAIN song.channels |->
                              IF InPattern(song, p)
                              THEN [song.channels[p] EXCEPT
                                        !.duration_ms = NoteDurationMs(new_bpm)]
                              ELSE song.channels[p]]]
          ELSE UNCHANGED song
    /\ UNCHANGED sessionVars

\* set_loop with the answer and the two rows the user types
SetLoop ==
    /\ pc = "menu"
    /\ \E choice \in {"y", "n"}, start \in {-1, 0}, end \in {0, 1, MAX_ROWS} :
          IF choice = "y"
          THEN IF start >= 0 /\ start < end /\ end < song.num_rows
               THEN song' = [song EXCEPT !.loop_enabled = 1, !.loop_start = start,
                                         !.loop_end = end]
               ELSE song' = [song EXCEPT !.loop_enabled = 0]
          ELSE song' = [song EXCEPT !.loop_enabled = 0]
    /\ UNCHANGED sessionVars

\* A song file, as far as load_song can tell files apart: the header values,
\* the cell lines at the observed positions, and where the file stops
\* parsing.  stop = "open": fopen fails; "bpm", "rows", "channels", "loop":
\* that header line does not parse (for "loop", after got of its three
\* numbers); "cell": the line of cell `at` does not parse after got of its
\* four fields; "none": every line parses.  A sample name read with
\* %63[^\n] is never empty.
FileCells ==
    {[note |-> 72, original_note |-> 60, sample |-> "loud.wav"],
     [note |-> 0, original_note |-> 72, sample |-> "loud.wav"]}

FileStops ==
    {[stop |-> st, at |-> <<0, 0>>, got |-> 0] : st \in {"none", "open", "bpm", "rows", "channels"}}
    \cup {[stop |-> "loop", at |-> <<0, 0>>, got |-> 1]}
    \cup {[stop |-> "cell", at |-> <<0, 0>>, got |-> g] : g \in {0, 2}}
    \cup {[stop |-> "cell", at |-> <<0, 1>>, got |-> 0]}

\* <<bpm, rows, <<loop enabled, loop start, loop end>>>> of the files
FileHeaders ==
    {<<0, 2, <<1, 3, 1>>>>,
     <<60, MAX_ROWS, <<0, 0, MAX_ROWS - 1>>>>,
     <<60, MAX_ROWS, <<1, 3, 1>>>>}

Files ==
    {[bpm |-> h[1], num_rows |-> h[2], num_channels |-> MAX_CHANNELS,
      loop |-> h[3], cells |-> cs, stops |-> st] :
        h \in FileHeaders, cs \in [ObservedCells -> FileCells], st \in FileStops}

\* the loops of load_song read channel by channel, row by row
ReadBefore(p, q) == p[1] < q[1] \/ (p[1] = q[1] /\ p[2] < q[2])

\* the header after load_song has read as far as the file parses
LoadedHeader(s, f) ==
    LET st == f.stops.stop
        past(stages) == st \notin stages
        loop_fields == IF past({"open", "bpm", "rows", "channels", "loop"}) THEN 3
                       ELSE IF st = "loop" THEN f.stops.got ELSE 0
    IN  [s EXCEPT
            !.bpm = IF past({"open", "bpm"}) THEN f.bpm ELSE @,
            !.num_rows = IF past({"open", "bpm", "rows"}) THEN f.num_rows ELSE @,
            !.num_channels = IF past({"open", "bpm", "rows", "channels"})
                             THEN f.num_channels ELSE @,
            !.loop_enabled = IF loop_fields >= 1 THEN f.loop[1] ELSE @,
            !.loop_start = IF loop_fields >= 2 THEN f.loop[2] ELSE @,
            !.loop_end = IF loop_fields >= 3 THEN f.loop[3] ELSE @]

\* cell p after load_song: read in full, read in part, or not reached
LoadedCell(s, f, p) ==
    LET old == s.channels[p]
        h == LoadedHeader(s, f)
        line == f.cells[p]
        reached == /\ f.stops.stop \in {"cell", "none"}
                   /\ InPattern(h, p)
                   /\ f.stops.stop = "cell" => ~ReadBefore(f.stops.at, p)
        partial == reached /\ f.stops.stop = "cell" /\ f.stops.at = p
    IN  IF ~reached THEN old
        ELSE IF partial
        THEN [old EXCEPT
                !.note = IF f.stops.got >= 1 THEN line.note ELSE @,
                !.original_note = IF f.stops.got >= 2 THEN line.original_note ELSE @]
        ELSE [note |-> line.note,
              original_note |-> line.original_note,
              duration_ms |-> get_note_duration_ms(h),
              sample |-> line.sample,
              pitch_ratio |-> IF line.note > 0 /\ line.original_note > 0
                              THEN calculate_pitch_ratio(line.original_note, line.note)
                              ELSE <<1, 1>>]

\* load_song, whether it returns 1 or 0: it reads into the song itself
LoadSong ==
    /\ pc = "menu"
    /\ \E f \in Files :
          song' = [LoadedHeader(song, f) EXCEPT
                      !.channels = [p \in DOMAIN song.channels |-> LoadedCell(song, f, p)]]
    /\ UNCHANGED sessionVars

EditNext ==
    \/ EditCell
    \/ ChangeBpm
    \/ SetLoop
    \/ LoadSong

EditSpec == EditInit /\ [][EditNext]_vars

(* ======================= the claims ======================= *)
Abs(x) == IF x < 0 THEN -x ELSE x

\* the k-th row (k = 0, 1, ...) of a looping live session, in closed form:
\* 0 .. loop_end, then loop_start .. loop_end over and over
ExpectedLoopRow(s, k) ==
    IF k <= s.loop_end THEN k
    ELSE s.loop_start + ((k - s.loop_end - 1) % (s.loop_end - s.loop_start + 1))

InRow == pc \in {"row_launch", "row_wait"}
InSession == pc \in {"row_cancel", "row_launch", "row_wait", "drain"}

\* C1: in a live session with loop enabled and 0 <= loop_start < loop_end <
\* row_count, the rows started so far are 0, 1, ..., loop_end followed by
\* loop_start, ..., loop_end repeated, and the row about to start continues
\* that sequence.
C1_LoopRowSequence ==
    (InSession /\ song.loop_enabled # 0 /\ ValidLoop(song)) =>
        /\ \A i \in 1 .. Len(started) : started[i] = ExpectedLoopRow(song, i - 1)
        /\ pc = "row_cancel" => current_row = ExpectedLoopRow(song, Len(started))
        /\ InRow => current_row = started[Len(started)]

\* a session that has wrapped twice into a loop that does not start at row 0
C1_Witness ==
    /\ InRow
    /\ song.loop_enabled # 0 /\ ValidLoop(song)
    /\ song.loop_start > 0
    /\ loop_count >= 2
    /\ started[Len(started)] = song.loop_start

\* C2: a key that arrives while row k is being played stops the session at
\* the poll that follows row k: no further row is started (with or without
\* loop), and once the stop is observed the session is past its row loop.
C2_StopHaltsRows ==
    /\ stop_len # -1 => /\ Len(started) = stop_len
                        /\ pc \in {"row_launch", "row_wait", "drain"}
    /\ pc \in {"row_cancel", "row_launch", "row_wait"} => global_playing = 1

\* the stop was observed after a row of a looping song with rows still to come
C2_Witness ==
    /\ pc = "drain"
    /\ global_playing = 0
    /\ stop_len >= 2
    /\ song.loop_enabled # 0 /\ ValidLoop(song)

\* C3: with loop disabled and no stop signal, play_song starts rows
\* 0, 1, ..., row_count - 1 once each in increasing order, never a row >=
\* row_count, and has started all of them when it leaves its loop.
C3_NoLoopRowsOnce ==
    (InSession /\ song.loop_enabled = 0 /\ global_playing = 1 /\ ~key_pending) =>
        /\ \A i \in 1 .. Len(started) : started[i] = i - 1 /\ started[i] < song.num_rows
        /\ pc = "drain" => Len(started) = song.num_rows

\* C4: for an enabled, valid loop window the pattern rows the export mixes
\* into successive row slots are the first rows of the live sequence.
C4_ExportFollowsLiveWrap ==
    (pc \in {"render", "write"} /\ song.loop_enabled # 0 /\ ValidLoop(song)) =>
        \A k \in 1 .. Len(slot_rows) : slot_rows[k] = ExpectedLoopRow(song, k - 1)

\* C5: the export mixes exactly total_rows row slots, total_rows being
\* row_count without loop and (loop_end - loop_start + 1) * 4 with a valid
\* loop, so that no row slot is left unrendered when the row loop ends.
C5_ExportRendersTotalRows ==
    pc = "write" =>
        /\ song.loop_enabled = 0 => total_rows = song.num_rows
        /\ (song.loop_enabled # 0 /\ ValidLoop(song)) =>
                total_rows = (song.loop_end - song.loop_start + 1) * 4
        /\ Len(slot_rows) = total_rows

\* the channels the renderer mixes for pattern row r
ActiveChannels(s, r) ==
    {ch \in Channels : ch < s.num_channels /\ CellAt(s, ch, r).note > 0}

\* C6: in the offline mix a voice on channels 0-3 adds 0.7 of its amplitude
\* to the left and 0.3 to the right output, a voice on channels 4-7 0.3 to
\* the left and 0.7 to the right (stated for the rows with a single voice,
\* up to the truncation of one sample value).
C6_PanningLaw ==
    pc \in {"render", "write"} =>
        \A k \in 1 .. Len(slot_rows) :
            \A ch \in Channels :
                ActiveChannels(song, slot_rows[k]) = {ch} =>
                    \A j \in 0 .. (NumProbes - 1) :
                        LET c == CellAt(song, ch, slot_rows[k])
                            f == StartSample(song, k - 1) + j
                            smp == VoiceSample(c, j, RowSamples(song))
                        IN  (f \in DOMAIN audio_buffer
                                /\ VoiceWrites(c, j, RowSamples(song))) =>
                            /\ Abs(10 * audio_buffer[f][1]
                                     - (IF ch < 4 THEN 7 ELSE 3) * smp) < 10
                            /\ Abs(10 * audio_buffer[f][2]
                                     - (IF ch < 4 THEN 3 ELSE 7) * smp) < 10

\* C7: a cell with note = 0 never gets a voice: play_row creates no thread
\* and sets no active flag for it, and the export mixes nothing for it,
\* whatever its sample and pitch_ratio are.
C7_RestNeverVoiced ==
    /\ \A l \in launched : CellAt(song, l[2], started[l[1]]).note > 0
    /\ pc = "row_wait" =>
          \A ch \in Channels :
              CellAt(song, ch, current_row).note = 0 =>
                  tone_threads[ch] = 0 /\ sample_threads[ch] = 0
    /\ \A m \in mixed : CellAt(song, m[2], slot_rows[m[1] + 1]).note > 0
    /\ \A k \in 1 .. Len(slot_rows) :
          ActiveChannels(song, slot_rows[k]) = {} =>
              \A j \in 0 .. (NumProbes - 1) :
                  LET f == StartSample(song, k - 1) + j
                  IN  f \in DOMAIN audio_buffer => audio_buffer[f] = <<0, 0>>

\* the song has been exported, and live playback is now in a row that holds
\* a rest with a sample attached next to a sounding voice
C7_Witness ==
    /\ pc = "row_wait"
    /\ wav_file.exists /\ wav_file.samples_written > 0
    /\ launched # {}
    /\ \E ch \in Channels :
          /\ CellAt(song, ch, current_row).note = 0
          /\ CellAt(song, ch, current_row).sample # ""

Int16 == -32768 .. 32767

\* C8: every sample of the master buffer, during the export and in the
\* exported file, lies in [-32768, 32767].
C8_MasterInRange ==
    /\ \A f \in DOMAIN audio_buffer :
          audio_buffer[f][1] \in Int16 /\ audio_buffer[f][2] \in Int16
    /\ wav_file.exists =>
          \A f \in DOMAIN wav_file.data :
              wav_file.data[f][1] \in Int16 /\ wav_file.data[f][2] \in Int16

\* two loud voices on the same side saturated a frame at each end of the range
C8_Witness ==
    /\ pc = "write"
    /\ \E f \in DOMAIN audio_buffer : audio_buffer[f][1] = 32767
    /\ \E f \in DOMAIN audio_buffer : audio_buffer[f][1] = -32768

InClampRange(r) == r[2] <= 2 * r[1] /\ r[1] <= 2 * r[2]

\* |r - 1.0| < 0.001
WithinThousandth(r) == 1000 * Abs(r[1] - r[2]) < r[2]

\* C11, as claimed: for every ratio r in [0.5, 2.0] and every non-empty
\* source the returned length is floor(len(source) / r).
C11_LengthIsFloor ==
    (call.state = "returned" /\ Len(call.original) > 0
        /\ InClampRange(call.pitch_ratio)) =>
        call.new_len = (Len(call.original) * call.pitch_ratio[2]) \div call.pitch_ratio[1]

\* C11, amended: for every ratio r in [0.5, 2.0] and every non-empty source
\* the returned length is floor(len(source) / r) when |r - 1.0| >= 0.001,
\* and len(source) when |r - 1.0| < 0.001.
C11_LengthIsFloorOffFastPath ==
    (call.state = "returned" /\ Len(call.original) > 0
        /\ InClampRange(call.pitch_ratio)) =>
        /\ call.new_len = Len(call.shifted)
        /\ call.new_len =
              IF WithinThousandth(call.pitch_ratio) THEN Len(call.original)
              ELSE (Len(call.original) * call.pitch_ratio[2]) \div call.pitch_ratio[1]

\* three samples were shifted by 3/2 into two
C11_Witness ==
    /\ call.state = "returned"
    /\ call.pitch_ratio = <<3, 2>>
    /\ Len(call.original) = 3
    /\ call.new_len = 2

\* C12: when |ratio - 1.0| < 0.001, and so for ratio 1.0, the returned
\* buffer has the length and the content of the source, and the source is
\* what it was.
C12_FastPathCopies ==
    (call.state = "returned" /\ WithinThousandth(call.pitch_ratio)) =>
        /\ call.new_len = Len(call.original)
        /\ call.shifted = call.original
        /\ call.original_after = call.original

\* a ratio that is not 1.0 took the fast path: three samples came back as
\* they were, where floor(len / ratio) is 2
C12_Witness ==
    /\ call.state = "returned"
    /\ call.pitch_ratio = <<1025, 1024>>
    /\ call.original = <<32767, -3, 5>>
    /\ call.shifted = <<32767, -3, 5>>

\* C13: outside the fast path a ratio above 2.0 gives what ratio 2.0 gives
\* (every second sample, floor(len / 2) of them) and a ratio below 0.5 what
\* ratio 0.5 gives (2 * len samples: each sample followed by its truncated
\* mean with the next, the last one repeated).
C13_RatioClamped ==
    (call.state = "returned" /\ Len(call.original) > 0
        /\ ~WithinThousandth(call.pitch_ratio)) =>
        LET len == Len(call.original)
            o == call.original
        IN  /\ call.pitch_ratio[1] > 2 * call.pitch_ratio[2] =>
                  /\ call.shifted = pitch_shift_sample(o, <<2, 1>>)
                  /\ call.new_len = len \div 2
                  /\ \A n \in 1 .. call.new_len : call.shifted[n] = o[2 * n - 1]
            /\ 2 * call.pitch_ratio[1] < call.pitch_ratio[2] =>
                  /\ call.shifted = pitch_shift_sample(o, <<1, 2>>)
                  /\ call.new_len = 2 * len
                  /\ \A k \in 1 .. len :
                        /\ call.shifted[2 * k - 1] = o[k]
                        /\ call.shifted[2 * k] =
                              TruncDiv(o[k] + o[IF k < len THEN k + 1 ELSE len], 2)
            /\ InClampRange(call.pitch_ratio) =>
                  call.new_len = (len * call.pitch_ratio[2]) \div call.pitch_ratio[1]

\* ratio 4.0 on three samples returned one sample, ratio 0.25 six
C13_Witness ==
    /\ call.state = "returned"
    /\ Len(call.original) = 3
    /\ \/ call.pitch_ratio = <<4, 1>> /\ call.new_len = 1
       \/ call.pitch_ratio = <<1, 4>> /\ call.new_len = 6

(* ---------------- row duration and the song's invariants ---------------- *)
\* row_ms as the specification gives it, for bpm >= 0
RowMs(bpm) == IF bpm = 0 THEN 500 ELSE (60000 \div bpm) \div 4

\* C14: the row duration every live row waits for and hands to its voices,
\* and the one the export sizes its buffer with, is 500 ms for bpm 0 and
\* (60000 / bpm) / 4 ms otherwise (125 for bpm 120): the same for both.
C14_RowDuration ==
    /\ pc \in {"row_cancel", "row_launch", "row_wait", "one_launch", "one_wait"} =>
          note_duration = RowMs(song.bpm)
    /\ \A v \in voices : v.duration_ms = RowMs(song.bpm)
    /\ pc \in {"render", "write"} =>
          /\ note_duration = RowMs(song.bpm)
          /\ total_samples = (total_rows * RowMs(song.bpm) * 44100) \div 1000
    /\ (song.bpm = 120 /\ pc \notin {"menu", "drain", "crashed", "one_cancel"}) =>
          note_duration = 125

\* an export of a song at bpm 120 runs while a voice of the live session
\* before it, started for 125 ms, is still there
C14_Witness ==
    /\ pc = "render"
    /\ song.bpm = 120
    /\ note_duration = 125
    /\ \E v \in voices : v.duration_ms = 125

\* C15: whenever a session can start, an enabled loop satisfies
\* 0 <= loop_start < loop_end < row_count.
C15_LoopRangeValid ==
    (pc = "menu" /\ song.loop_enabled # 0) => ValidLoop(song)

\* 2^((note - original_note) / 12) for a whole number of octaves
OctaveRatio(note, original_note) ==
    IF note >= original_note THEN <<Pow2((note - original_note) \div 12), 1>>
    ELSE <<1, Pow2((original_note - note) \div 12)>>

\* C16: every cell has pitch_ratio = 2^((note - original_note) / 12) when
\* note and original_note are both > 0, and 1.0 otherwise.
C16_PitchRatioInvariant ==
    \A p \in DOMAIN song.channels :
        LET c == song.channels[p]
        IN  c.pitch_ratio = IF c.note > 0 /\ c.original_note > 0
                            THEN OctaveRatio(c.note, c.original_note)
                            ELSE <<1, 1>>

\* C17: every cell of the pattern has duration_ms = row_ms(bpm) for the
\* song's current bpm.
C17_DurationFollowsBpm ==
    \A p \in DOMAIN song.channels :
        InPattern(song, p) => song.channels[p].duration_ms = RowMs(song.bpm)

(* ---------------- failures ---------------- *)
\* the active flag of the slot voice v was started on
SlotFlag(v, tones, samples) == IF v.kind = "tone" THEN tones[v.ch] ELSE samples[v.ch]

\* C18: when the routine of a voice returns, whether it played or failed
\* (missing asset, refused buffer or device), the active flag of its slot
\* is clear.
C18_VoiceClearsFlag ==
    [][\A v \in voices :
          voices' = voices \ {v} => SlotFlag(v, tone_threads', sample_threads') = 0]_vars

\* the cell is a sample voice whose file does not load
FailingCell(c) == c.note > 0 /\ c.sample # "" /\ ~Loadable(c.sample)

\* the song with every failing cell replaced by a rest
Silenced(s) ==
    [s EXCEPT !.channels =
        [p \in {q \in DOMAIN s.channels : ~FailingCell(s.channels[q])} |-> s.channels[p]]]

\* the master buffer after the row slots rows[k], rows[k + 1], ... of song s
RECURSIVE RenderSlots(_, _, _, _)
RenderSlots(buf, s, rows, k) ==
    IF k > Len(rows) THEN buf
    ELSE RenderSlots(MixRow(buf, s, 0, rows[k], k - 1), s, rows, k + 1)

\* C19: a sample that cannot be loaded costs nothing but its own voice.
\* Live, every row started has a thread for each of its voices, failing or
\* not, and the session ends only on a key or at the end of the pattern.
\* In the export every voice of every row slot is processed, the row loop
\* ends only at total_rows or at its loop limit, and the master buffer is
\* the one of the same song with the failing cells silent.
C19_FailuresIsolated ==
    /\ \A i \in 1 .. Len(started) :
          (i < Len(started) \/ pc \in {"row_wait", "one_wait", "drain"}) =>
              \A ch \in Channels :
                  (ch < song.num_channels
                      /\ VoiceKind(CellAt(song, ch, started[i])) # "none") =>
                      <<i, ch, VoiceKind(CellAt(song, ch, started[i]))>> \in launched
    /\ pc = "drain" =>
          \/ global_playing = 0
          \/ song.loop_enabled = 0 /\ current_row >= song.num_rows
    /\ pc \in {"render", "write"} =>
          /\ \A k \in 1 .. Len(slot_rows) :
                \A ch \in Channels :
                    (ch < song.num_channels
                        /\ RenderKind(CellAt(song, ch, slot_rows[k])) # "none") =>
                        <<k - 1, ch, RenderKind(CellAt(song, ch, slot_rows[k]))>> \in mixed
          /\ audio_buffer =
                RenderSlots([f \in ProbeFrames(song) |-> <<0, 0>>], Silenced(song),
                            slot_rows, 1)
          /\ pc = "write" =>
                current_row >= total_rows \/ LoopsLimit(loops_done)

\* a song with a tone on channel 0 and a missing sample on channel 1 of
\* row 0 was exported with the tone in its file, and its live session has
\* launched both voices of row 0 and gone on to a later row
C19_Witness ==
    /\ pc = "row_wait"
    /\ Len(started) >= 2
    /\ started[1] = 0
    /\ FailingCell(CellAt(song, 1, 0))
    /\ <<1, 0, "tone">> \in launched
    /\ <<1, 1, "sample">> \in launched
    /\ \A v \in voices : v.file = ""
    /\ wav_file.exists
    /\ \E f \in DOMAIN wav_file.data : wav_file.data[f][1] > 0

\* C20: a play_song or play_current_row that cannot open the audio output
\* reports the failure once and returns to the menu: the step starts no
\* row, launches no voice and sets no flag.
C20_OpenFailureStartsNothing ==
    [][(reported' # <<>> /\ reported' # reported) =>
          /\ pc = "menu" /\ pc' = "menu"
          /\ Len(reported') = 1
          /\ UNCHANGED <<song, current_row, tone_threads, sample_threads,
                         global_playing, voices, started, launched, note_duration>>]_vars

\* the output could not be opened for a song whose row 0 has a voice
C20_Witness ==
    /\ pc = "menu"
    /\ reported = <<"Mix_OpenAudio error">>
    /\ started = <<>> /\ launched = {}
    /\ \E ch \in Channels : VoiceKind(CellAt(song, ch, 0)) # "none"

\* C21: only a save_song_to_wav that returns 1 creates or writes the output
\* file, and one that returns 0 (the master buffer, SDL_Init, Mix_OpenAudio
\* or fopen refused) has freed the master buffer and closed whatever part
\* of the audio output it had opened.
C21_FailedExportLeavesNothing ==
    [][/\ wav_file' # wav_file => export_result' = 1
       /\ export_result' = 0 => (heap' = {} /\ subsystems' = {})]_vars

\* an export has failed after an earlier one had written its file
C21_Witness ==
    /\ pc = "menu"
    /\ export_result = 0
    /\ wav_file.exists
    /\ heap = {} /\ subsystems = {}

\* C22: an export in which an allocation of a voice (its row buffer, its
\* sample data) was refused does not return 1.
C22_AllocationFailureFailsExport ==
    [][(nomem # {} /\ pc = "write" /\ pc' = "menu") => export_result' = 0]_vars

\* C23: no step of live playback (play_song, play_current_row, play_row,
\* the voice threads) and no step of an export changes any field of the
\* Song, so the Song at the end of a session, however it ends, is the Song
\* at its start.
C23_SessionsOnlyReadSong ==
    [][(pc # "menu" \/ pc' # "menu" \/ voices' # voices
           \/ reported' # reported \/ export_result' # export_result) =>
          song' = song]_vars

\* a looping song with cells has been exported, and a live session of it
\* has been stopped by a key after its second row
C23_Witness ==
    /\ pc = "drain"
    /\ global_playing = 0
    /\ Len(started) >= 2
    /\ song.loop_enabled # 0
    /\ DOMAIN song.channels # {}
    /\ wav_file.exists

\* the observed frames of buffer buf that lie in row slot k (k = 0, 1, ...)
SlotFrames(buf, s, k) ==
    {f \in DOMAIN buf : StartSample(s, k) <= f /\ f < StartSample(s, k) + RowSamples(s)}

\* C24: a row in which no channel has note > 0 is rendered as silence and
\* is no error: its slot lies with its full length of row_samples frames
\* inside the master buffer, every frame of the slot is 0 on both sides
\* while the export runs, and in the file of the finished export.
C24_RestRowIsSilence ==
    /\ pc \in {"render", "write"} =>
          \A k \in 1 .. Len(slot_rows) :
              ActiveChannels(song, slot_rows[k]) = {} =>
                  /\ StartSample(song, k - 1) + RowSamples(song) <= total_samples
                  /\ \A f \in SlotFrames(audio_buffer, song, k - 1) :
                        audio_buffer[f] = <<0, 0>>
    /\ (pc = "menu" /\ export_result = 1 /\ song.loop_enabled = 0) =>
          \A k \in 0 .. (song.num_rows - 1) :
              ActiveChannels(song, k) = {} =>
                  /\ 2 * (StartSample(song, k) + RowSamples(song)) <= wav_file.samples_written
                  /\ \A f \in SlotFrames(wav_file.data, song, k) :
                        wav_file.data[f] = <<0, 0>>

\* the export of a song has returned 1 whose row 0 holds nothing but a rest
\* with a sample attached, and whose last row holds a voice that is in the file
C24_Witness ==
    /\ pc = "menu"
    /\ export_result = 1
    /\ song.loop_enabled = 0
    /\ song.num_rows = MaxRows
    /\ ActiveChannels(song, 0) = {}
    /\ CellAt(song, 0, 0).sample # ""
    /\ SlotFrames(wav_file.data, song, 0) # {}
    /\ \E f \in DOMAIN wav_file.data : wav_file.data[f] # <<0, 0>>

(* ---------------- the voice slots and their threads ---------------- *)
\* the scheduler's next statement reads or writes a voice slot
MainAtSlot == pc \in {"s_init", "s_cancel", "s_launch", "s_end"}

\* the next statement of thread v reads or writes its voice slot
VoiceAtSlot(v) == v.at \in {"check", "finish"}

\* C25: whenever the scheduler or a voice thread is about to read or write
\* a voice slot (initialisation, cancellation, activation, start-up check,
\* completion), it holds audio_mutex.
C25_SlotAccessUnderMutex ==
    /\ MainAtSlot => mutex = "main"
    /\ \A v \in voices : VoiceAtSlot(v) => (mutex = "voice" /\ v.at = "finish")

\* C26: a voice of an earlier row that is still running when the next row
\* activates the same slot does no harm: while the scheduler waits out the
\* row, the flag it set is still set when the row's voice makes its
\* start-up check, so that the voice is not skipped.
C26_OverlapIsNoHazard ==
    pc = "s_wait" =>
        \A v \in voices :
            (v.at = "check" /\ v.born = Len(started)) =>
                SlotFlag(v, tone_threads, sample_threads) = 1

(* ---------------- the order of a live row ---------------- *)
\* the steps of live playback in the order the claim gives them
RowOrder ==
    {<<"menu", "row_cancel">>, <<"row_cancel", "row_launch">>,
     <<"row_launch", "row_wait">>, <<"row_wait", "row_cancel">>,
     <<"row_wait", "drain">>, <<"drain", "menu">>,
     <<"menu", "one_cancel">>, <<"one_cancel", "one_launch">>,
     <<"one_launch", "one_wait">>, <<"one_wait", "menu">>}

LivePositions ==
    {"row_cancel", "row_launch", "row_wait", "drain", "one_cancel", "one_launch", "one_wait"}

\* the voices row number idx of the session must have got, for pattern row r
VoicesDue(s, idx, r) ==
    {<<idx, ch, IF CellAt(s, ch, r).sample # "" THEN "sample" ELSE "tone">> :
        ch \in {x \in Channels : x < s.num_channels /\ CellAt(s, x, r).note > 0}}

\* C27: a live session starts with every slot inactive.  Each row first
\* clears every flag, then creates for every channel with note > 0 one
\* voice, a sample voice if the cell names a sample and a tone voice
\* otherwise, and nothing for the other channels, all of it before the
\* row's wait; the wait is followed by the poll of the stop signal, which
\* is seen nowhere else.
C27_RowStepsInOrder ==
    /\ [](/\ (pc \in {"row_cancel", "one_cancel"} /\ started = <<>>) =>
                (tone_threads = AllInactive /\ sample_threads = AllInactive)
          /\ pc \in {"row_launch", "one_launch"} =>
                /\ tone_threads = AllInactive /\ sample_threads = AllInactive
                /\ \A l \in launched : l[1] < Len(started)
          /\ pc \in {"row_wait", "one_wait"} =>
                /\ {l \in launched : l[1] = Len(started)}
                      = VoicesDue(song, Len(started), current_row)
                /\ \A ch \in Channels :
                      /\ tone_threads[ch] = 1 =>
                            <<Len(started), ch, "tone">> \in launched
                      /\ sample_threads[ch] = 1 =>
                            <<Len(started), ch, "sample">> \in launched)
    /\ [][/\ ((pc \in LivePositions \/ pc' \in LivePositions) /\ pc' # pc) =>
                <<pc, pc'>> \in RowOrder
          /\ (started' # started /\ started' # <<>>) =>
                /\ pc \in {"row_cancel", "one_cancel"}
                /\ tone_threads' = AllInactive /\ sample_threads' = AllInactive
          /\ (launched' # launched /\ launched' # {}) =>
                pc \in {"row_launch", "one_launch"}
          /\ (global_playing = 1 /\ global_playing' = 0) => pc = "row_wait"
          /\ (key_pending /\ ~key_pending') => pc \in {"row_wait", "drain"}]_vars

\* the third row of a looping session is row 0 again; its tone and its
\* sample are both launched, the row's wait is on, and a key is waiting
\* for the poll
C27_Witness ==
    /\ pc = "row_wait"
    /\ key_pending
    /\ Len(started) >= 3
    /\ current_row = 0
    /\ <<Len(started), 0, "tone">> \in launched
    /\ \E ch \in Channels : <<Len(started), ch, "sample">> \in launched

\* C28: the loop counter of a live session is 0 when the session starts
\* and stays 0 without loop; it goes up by one, and only then, when the
\* session goes from the row loop_end it has just played to loop_start as
\* its next row, so that each loop iteration is counted between the start
\* of row loop_end and the next start of row loop_start.
C28_LoopCounter ==
    /\ []((InSession /\ (started = <<>> \/ song.loop_enabled = 0)) => loop_count = 0)
    /\ [][/\ (loop_count' # loop_count /\ pc' # "menu") =>
                /\ loop_count' = loop_count + 1
                /\ song.loop_enabled # 0
                /\ pc = "row_wait" /\ pc' = "row_cancel"
                /\ started[Len(started)] = song.loop_end
                /\ current_row' = song.loop_start
          /\ (pc = "row_wait" /\ pc' = "row_cancel" /\ song.loop_enabled # 0
                /\ current_row = song.loop_end) =>
                /\ loop_count' = loop_count + 1
                /\ current_row' = song.loop_start
          /\ (pc = "row_wait" /\ pc' = "row_cancel" /\ current_row' = current_row + 1
                /\ current_row # song.loop_end) =>
                loop_count' = loop_count]_vars

\* C29: for a non-empty source and any ratio, every index of the source the
\* resampler reads lies in 0 .. len(source) - 1: for every output index
\* i < new_length it reads idx1 = floor(i * ratio) <= len(source) - 1 and
\* idx2 = min(idx1 + 1, len(source) - 1), ratio being the one in effect
\* after the limit to [0.5, 2.0]; a buffer that is returned has all its
\* new_length samples, and a call that fails returns none.
C29_ReadsInsideSource ==
    /\ (call.state = "returned" /\ Len(call.original) > 0) =>
          LET len == Len(call.original)
              r == IF call.pitch_ratio[1] > 2 * call.pitch_ratio[2] THEN <<2, 1>>
                   ELSE IF 2 * call.pitch_ratio[1] < call.pitch_ratio[2] THEN <<1, 2>>
                   ELSE call.pitch_ratio
          IN  /\ call.reads \subseteq 0 .. (len - 1)
              /\ ~WithinThousandth(call.pitch_ratio) =>
                    /\ \A i \in 0 .. (call.new_len - 1) :
                          LET idx1 == (i * r[1]) \div r[2]
                          IN  /\ idx1 <= len - 1
                              /\ idx1 \in call.reads
                              /\ (IF idx1 + 1 < len - 1 THEN idx1 + 1 ELSE len - 1)
                                    \in call.reads
                    /\ \A x \in call.reads :
                          \E i \in 0 .. (call.new_len - 1) :
                              LET idx1 == (i * r[1]) \div r[2]
                              IN  x \in {idx1, IF idx1 + 1 < len - 1 THEN idx1 + 1 ELSE len - 1}
              /\ DOMAIN call.shifted = 1 .. call.new_len
    /\ call.state = "null" => "shifted" \notin DOMAIN call

\* three samples were stretched by 3/4 into four: the last output sample
\* reads the last source sample twice, idx2 being held at len - 1
C29_Witness ==
    /\ call.state = "returned"
    /\ call.pitch_ratio = <<3, 4>>
    /\ Len(call.original) = 3
    /\ call.new_len = 4
    /\ call.reads = {0, 1, 2}

\* C30: when a live session has returned (flags cleared, SDL_Delay(100),
\* device closed) every voice thread it launched has terminated, so none
\* is left to touch the device or its slot once the audio subsystems are
\* released or a later session has begun.
C30_VoicesEndWithSession ==
    subsystems = {} => voices = {}

(* ---------------- the layout of the master buffer ---------------- *)
\* C31: in the export, for a song with bpm 0 or in 20 .. 300, at most
\* MAX_ROWS rows and a valid loop window, no sample count overflows the
\* 32-bit int it is computed in, and for every rendered row slot k
\* start_sample(k) + row_samples <= start_sample(k + 1) <= total_samples:
\* a row begins where the row before it ended or later, and every
\* dest_idx written lies inside the total_samples * 2 samples of the buffer.
C31_RowsInsideBuffer ==
    /\ call.state # "args" => ~call.overflow
    /\ call.state = "row" =>
          /\ call.prev_end <= call.start_sample
          /\ call.start_sample + call.row_samples <= StartSample(call.hdr, call.k + 1)
          /\ StartSample(call.hdr, call.k + 1) <= call.total_samples
          /\ 0 <= call.first_dest
          /\ call.last_dest < call.buffer_len

\* the longest export there is: bpm 20, loop window 0 .. 15, the last of
\* the 64 row slots ends on the last sample of the buffer
C31_Witness ==
    /\ call.state = "row"
    /\ call.hdr.bpm = 20
    /\ call.total_rows = 64
    /\ call.k = 63
    /\ call.total_samples = 2116800
    /\ call.last_dest = call.buffer_len - 1

====
